---- MODULE Spec2Model ----
(***************************************************************************)
(* Model of the spaceapps_meta repository analyser: the orchestrator       *)
(* analyze_from_csv (analysis.py), the two analysers analyze_repo_local    *)
(* and analyze_repo (gitmeta.py), identifier normalisation (io.py) and the *)
(* line counter (loc.py).                                                  *)
(*                                                                         *)
(* Text is a sequence of atoms (a character, or an indivisible piece such  *)
(* as "github.com"); an optional value is <<>> (None) or <<v>>.            *)
(***************************************************************************)
EXTENDS Integers, Sequences, FiniteSets, Bags, TLC

None == <<>>
Some(v) == <<v>>
IsNone(x) == x = <<>>
Val(x) == x[1]

Min(a, b) == IF a <= b THEN a ELSE b
Max(a, b) == IF a >= b THEN a ELSE b

(***************************************************************************)
(* Python string helpers, over sequences of atoms.                         *)
(***************************************************************************)
WS == {" ", "\n", "\t"}

RECURSIVE LStrip(_)
LStrip(s) == IF s # <<>> /\ Head(s) \in WS THEN LStrip(Tail(s)) ELSE s

RECURSIVE RStrip(_)
RStrip(s) ==
    IF s # <<>> /\ s[Len(s)] \in WS THEN RStrip(SubSeq(s, 1, Len(s) - 1)) ELSE s

\* str.strip()
Strip(s) == RStrip(LStrip(s))

\* str.split(sep) for a one-atom separator: always at least one piece
RECURSIVE SplitOn(_, _)
SplitOn(s, sep) ==
    IF \A i \in 1..Len(s) : s[i] # sep
    THEN <<s>>
    ELSE LET i == CHOOSE j \in 1..Len(s) :
                      s[j] = sep /\ \A l \in 1..(j - 1) : s[l] # sep
         IN  <<SubSeq(s, 1, i - 1)>> \o SplitOn(SubSeq(s, i + 1, Len(s)), sep)

\* str.splitlines(): no piece for the empty string or after a final newline
SplitLines(s) ==
    LET parts == SplitOn(s, "\n")
    IN  IF parts[Len(parts)] = <<>> THEN SubSeq(parts, 1, Len(parts) - 1) ELSE parts

\* str.split(): the first whitespace-separated token of a stripped text
FirstToken(s) ==
    IF \A i \in 1..Len(s) : s[i] \notin WS
    THEN s
    ELSE LET i == CHOOSE j \in 1..Len(s) :
                      s[j] \in WS /\ \A l \in 1..(j - 1) : s[l] \notin WS
         IN  SubSeq(s, 1, i - 1)

DigitVal == [c \in {"0", "1", "2", "3", "4", "5", "6", "7", "8", "9"} |->
               CASE c = "0" -> 0 [] c = "1" -> 1 [] c = "2" -> 2 [] c = "3" -> 3
                 [] c = "4" -> 4 [] c = "5" -> 5 [] c = "6" -> 6 [] c = "7" -> 7
                 [] c = "8" -> 8 [] c = "9" -> 9]

\* str.isdigit()
IsDigit(s) == s # <<>> /\ \A i \in 1..Len(s) : s[i] \in DOMAIN DigitVal

\* int(s) of a digit string
RECURSIVE ToInt(_)
ToInt(s) ==
    IF s = <<>> THEN 0
    ELSE 10 * ToInt(SubSeq(s, 1, Len(s) - 1)) + DigitVal[s[Len(s)]]

\* the lines of a text that are not blank, stripped or not
NonBlank(lines) == SelectSeq(lines, LAMBDA l : Strip(l) # <<>>)

\* str.lower() on the atoms whose case the program looks at
Lower(a) ==
    CASE a = "HTTPS://" -> "https://"
      [] a = "HTTP://" -> "http://"
      [] a = "WWW." -> "www."
      [] a = "GitHub.com" -> "github.com"
      [] a = ".GIT" -> ".git"
      [] a = ".PNG" -> ".png"
      [] OTHER -> a

(***************************************************************************)
(* io.py: GITHUB_URL_RE and parse_slug.                                    *)
(***************************************************************************)
\* atoms that hold a "/" character
HasSlash(a) == a \in {"/", "http://", "https://", "HTTP://", "HTTPS://"}

\* [^/]+ : the atoms from..to are one or more and none holds a "/"
NoSlash(s, from, to) ==
    from <= to /\ to <= Len(s) /\ \A k \in from..to : ~HasSlash(s[k])

\* (/|$) at position p
SlashOrEnd(s, p) == p = Len(s) + 1 \/ (p <= Len(s) /\ s[p] = "/")

\* (?:\.git)?(?:/|$) at position p
GitSlashOrEnd(s, p) ==
    \/ (p <= Len(s) /\ Lower(s[p]) = ".git" /\ SlashOrEnd(s, p + 1))
    \/ SlashOrEnd(s, p)

\* the ways GITHUB_URL_RE matches at the start of s, each <<h, oe, ne>>: the host
\* is atom h, the owner ends at atom oe and the name at atom ne
Matches(s) ==
    {m \in (2..3) \X (1..Len(s)) \X (1..Len(s)) :
        /\ m[1] + 1 <= Len(s)
        /\ Lower(s[1]) \in {"http://", "https://"}
        /\ m[1] = 3 => Lower(s[2]) = "www."
        /\ Lower(s[m[1]]) = "github.com"
        /\ s[m[1] + 1] = "/"
        /\ NoSlash(s, m[1] + 2, m[2])
        /\ m[2] + 1 <= Len(s)
        /\ s[m[2] + 1] = "/"
        /\ NoSlash(s, m[2] + 2, m[3])
        /\ GitSlashOrEnd(s, m[3] + 1)}

\* GITHUB_URL_RE.match(s): <<owner, name>> or None; the name group is lazy, so it
\* is the shortest that lets the rest of the pattern match
GITHUB_URL_RE(s) ==
    IF Matches(s) = {} THEN None
    ELSE LET m == CHOOSE n \in Matches(s) : \A o \in Matches(s) : n[3] <= o[3]
         IN  Some(<<SubSeq(s, m[1] + 2, m[2]), SubSeq(s, m[2] + 2, m[3])>>)

parse_slug(repo_url) ==
    LET m == GITHUB_URL_RE(Strip(repo_url))
    IN  IF IsNone(m) THEN None
        ELSE Some(Val(m)[1] \o <<"/">> \o Val(m)[2])

\* str.replace('/', to)
RECURSIVE Replace(_, _)
Replace(s, to) ==
    IF s = <<>> THEN <<>>
    ELSE (IF Head(s) = "/" THEN to ELSE <<Head(s)>>) \o Replace(Tail(s), to)

(***************************************************************************)
(* gitmeta.py: the record, the command runner and the parsing of each      *)
(* command's output.  A command's outcome is a record                      *)
(*   [kind, rc, out, err]   kind "exit" (the process ended with rc),       *)
(*                          "timeout" (subprocess.TimeoutExpired),         *)
(*                          "raise" (subprocess.run raised, err the text). *)
(***************************************************************************)
Exit(rc, out, err) == [kind |-> "exit", rc |-> rc, out |-> out, err |-> err]
TimedOut == [kind |-> "timeout", rc |-> 0, out |-> <<>>, err |-> <<>>]
Raises(e) == [kind |-> "raise", rc |-> 0, out |-> <<>>, err |-> e]
\* a command that never exits
Hangs == [kind |-> "hang", rc |-> 0, out |-> <<>>, err |-> <<>>]

\* a faulty variant: a timeout reported with return code 0
run_timeout_ok(o) ==
    IF o.kind \in {"timeout", "hang"}
    THEN [rc |-> 0, out |-> <<>>, err |-> <<"Timeout after 60s">>]
    ELSE [rc |-> o.rc, out |-> o.out, err |-> o.err]

\* gitmeta._run: (returncode, stdout, stderr) of an outcome that does not raise
run(o) ==
    IF o.kind \in {"timeout", "hang"}
    THEN [rc |-> 1, out |-> <<>>, err |-> <<"Timeout after 60s">>]
    ELSE [rc |-> o.rc, out |-> o.out, err |-> o.err]

\* loc._run: no timeout is passed to subprocess.run
loc_run(o) == [rc |-> o.rc, out |-> o.out, err |-> o.err]

Fields == {"repo_url", "repo_slug", "contributors_count", "commits_count",
           "first_commit_iso", "last_commit_iso", "total_lines",
           "avg_lines_changed_per_commit", "default_branch", "size_on_disk_mb",
           "clone_status"}

\* the fields an analysis fills in
Analytical == Fields \ {"repo_url", "repo_slug", "clone_status"}

PENDING == <<"PENDING">>
OK == <<"OK">>
ERROR(text) == <<"ERROR: ">> \o text

\* a faulty variant: the counts initialised to 0 instead of None
RepoMetrics_zeroed(repo_url, repo_slug) ==
    [repo_url |-> repo_url, repo_slug |-> repo_slug,
     contributors_count |-> Some(0), commits_count |-> Some(0),
     first_commit_iso |-> None, last_commit_iso |-> None,
     total_lines |-> None, avg_lines_changed_per_commit |-> None,
     default_branch |-> None, size_on_disk_mb |-> None,
     clone_status |-> PENDING]

\* RepoMetrics(repo_url=..., repo_slug=...)
RepoMetrics(repo_url, repo_slug) ==
    [repo_url |-> repo_url, repo_slug |-> repo_slug,
     contributors_count |-> None, commits_count |-> None,
     first_commit_iso |-> None, last_commit_iso |-> None,
     total_lines |-> None, avg_lines_changed_per_commit |-> None,
     default_branch |-> None, size_on_disk_mb |-> None,
     clone_status |-> PENDING]

\* RepoMetrics.as_dict: the dataclass's fields under their own names
as_dict(m) == [f \in Fields |-> m[f]]

\* `slug or ''`
SlugOrEmpty(slug) == IF IsNone(slug) THEN <<>> ELSE Val(slug)

\* git rev-parse --abbrev-ref HEAD
DefaultBranch(r) == IF r.rc = 0 THEN Some(Strip(r.out)) ELSE None

\* git rev-list --count HEAD
CommitsCount(r) ==
    IF r.rc = 0 /\ IsDigit(Strip(r.out)) THEN Some(ToInt(Strip(r.out))) ELSE None

\* git log --reverse --format=%aI: the stripped non-blank lines
DateLines(r) ==
    LET ls == NonBlank(SplitLines(r.out))
    IN  [k \in 1..Len(ls) |-> Strip(ls[k])]

\* a faulty variant: the dates kept only when the commit count is known
SetDates_counted(m, r) ==
    IF r.rc = 0 /\ DateLines(r) # <<>> /\ ~IsNone(m.commits_count)
    THEN [m EXCEPT !.first_commit_iso = Some(DateLines(r)[1]),
                   !.last_commit_iso = Some(DateLines(r)[Len(DateLines(r))])]
    ELSE m

SetDates(m, r) ==
    IF r.rc = 0 /\ DateLines(r) # <<>>
    THEN [m EXCEPT !.first_commit_iso = Some(DateLines(r)[1]),
                   !.last_commit_iso = Some(DateLines(r)[Len(DateLines(r))])]
    ELSE m

\* git shortlog -sne
SetContributors(m, r) ==
    IF r.rc = 0
    THEN [m EXCEPT !.contributors_count = Some(Len(NonBlank(SplitLines(r.out))))]
    ELSE m

\* one line of git log --numstat: added + deleted, 0 for a part that is no number
LineChanges(line) ==
    LET parts == SplitOn(Strip(line), "\t")
    IN  IF Len(parts) >= 3
        THEN (IF IsDigit(parts[1]) THEN ToInt(parts[1]) ELSE 0)
             + (IF IsDigit(parts[2]) THEN ToInt(parts[2]) ELSE 0)
        ELSE 0

RECURSIVE SumChanges(_)
SumChanges(lines) ==
    IF lines = <<>> THEN 0 ELSE LineChanges(Head(lines)) + SumChanges(Tail(lines))

TotalChanges(out) == SumChanges(SplitLines(out))

\* round(a / b, 2), in hundredths (b > 0; no tie arises for b < 8)
Round2(a, b) == (200 * a + b) \div (2 * b)

\* `commits_count and commits_count > 0`
ValidCount(commits_count) ==
    ~IsNone(commits_count) /\ Val(commits_count) # 0 /\ Val(commits_count) > 0

\* a faulty variant: an average of 0 where there is no valid commit count
SetAverage_zero(m, r, commits_count) ==
    IF r.rc = 0
    THEN [m EXCEPT !.avg_lines_changed_per_commit =
                       IF ValidCount(commits_count)
                       THEN Some(Round2(TotalChanges(r.out), Val(commits_count)))
                       ELSE Some(0)]
    ELSE m

SetAverage(m, r, commits_count) ==
    IF r.rc = 0 /\ ValidCount(commits_count)
    THEN [m EXCEPT !.avg_lines_changed_per_commit =
                       Some(Round2(TotalChanges(r.out), Val(commits_count)))]
    ELSE m

MiB == 1048576

RECURSIVE SumSeq(_)
SumSeq(s) == IF s = <<>> THEN 0 ELSE Head(s) + SumSeq(Tail(s))

\* _dir_size_mb over the sizes of the files below the path, in hundredths of a MB
dir_size_mb(sizes) == Round2(SumSeq(sizes), MiB)

(***************************************************************************)
(* loc.py: the line counter.  cloc's stdout is kept as the document        *)
(* json.loads would build: [json |-> FALSE] when it is no JSON, else       *)
(* [json |-> TRUE, data |-> the dictionary].                               *)
(***************************************************************************)
\* count_lines_with_cloc, given the outcome of the cloc command (not raising)
count_lines_with_cloc(o) ==
    LET r == loc_run(o)
    IN  IF r.rc # 0 THEN None
        ELSE IF ~r.out.json THEN None
        ELSE IF "SUM" \in DOMAIN r.out.data /\ "code" \in DOMAIN r.out.data["SUM"]
             THEN Some(r.out.data["SUM"]["code"])
             ELSE None

NUL == "\\0"

bin_ext == {".png", ".jpg", ".jpeg", ".gif", ".webp", ".svg", ".pdf", ".zip", ".gz",
            ".tar", ".7z", ".exe", ".dll", ".so", ".dylib", ".bin", ".mp4", ".mov",
            ".avi", ".mkv", ".ogg", ".mp3", ".wav", ".flac", ".ico", ".ttf", ".otf"}

\* an atom that is a file extension: a dot and what follows it
IsExt(a) == a \in bin_ext \/ a \in {".PNG", ".go", ".py", ".md"}

\* Path(rel).suffix: the last atom when it is an extension and not the whole name
Suffix(rel) ==
    IF Len(rel) >= 2 /\ IsExt(rel[Len(rel)]) THEN rel[Len(rel)] ELSE ""

\* [f for f in out.split('\x00') if f]
TrackedFiles(out) == SelectSeq(SplitOn(out, NUL), LAMBDA f : f # <<>>)

\* the files wc is run on
Counted(files) == SelectSeq(files, LAMBDA f : Lower(Suffix(f)) \notin bin_ext)

\* what one wc -l adds to the total
WcLines(o) ==
    LET r == loc_run(o)
    IN  IF r.rc = 0 /\ Strip(r.out) # <<>> /\ IsDigit(FirstToken(Strip(r.out)))
        THEN ToInt(FirstToken(Strip(r.out)))
        ELSE 0

RECURSIVE SumWc(_, _)
SumWc(files, wc) ==
    IF files = <<>> THEN 0 ELSE WcLines(wc[Head(files)]) + SumWc(Tail(files), wc)

\* count_lines_with_wc, given the outcomes of git ls-files and of each wc
\* (none raising): the return code of ls-files is not looked at
count_lines_with_wc(ls, wc) == SumWc(Counted(TrackedFiles(loc_run(ls).out)), wc)

(***************************************************************************)
(* The state.                                                              *)
(***************************************************************************)
VARIABLES
    urls,        \* analyze_from_csv: the identifiers read_repo_urls returned
    jobs,        \* analyze_from_csv: the jobs argument (None or a number)
    cpu_count,   \* what os.cpu_count() returns (None or a number)
    repos,       \* the repositories outside the program: working copy -> state
    cloc_on_path,\* whether shutil.which("cloc") finds the tool
    rmtree_ok,   \* whether shutil.rmtree can delete a temporary directory
    local_dirs,  \* the local base directory and the working copies on disk under it
    safe_dirs,   \* the safe.directory entries of the global git configuration
    cfg_lock,    \* the task whose git config holds the configuration's lock, or 0
    tmpdirs,     \* the temporary directories on disk
    orch,        \* where analyze_from_csv is: "run", "done"; "direct" when unused
    inv,         \* the analyser invocations (in a batch: the futures), by number
    yielded,     \* the futures as_completed has handed to the loop, in order
    rows,        \* analyze_from_csv: rows
    df           \* analyze_from_csv: the table returned (None until then)

vars == <<urls, jobs, cpu_count, repos, cloc_on_path, rmtree_ok, local_dirs, safe_dirs, cfg_lock, tmpdirs,
          orch, inv, yielded, rows, df>>

\* what no action changes
world == <<urls, jobs, cpu_count, repos, cloc_on_path, rmtree_ok, local_dirs>>

Tasks == DOMAIN inv

\* an invocation is executing: a worker took it and it has not ended
Running(t) == t.pc \notin {"queued", "returned", "raised"}
Ended(t) == t.pc \in {"returned", "raised"}

\* a new invocation of an analyser on repo_url
Invocation(mode, repo_url, keep_workdir, pc) ==
    [pc |-> pc, mode |-> mode, keep_workdir |-> keep_workdir, repo_url |-> repo_url,
     repo_dir |-> <<>>, tmpdir |-> <<>>, commits_count |-> None,
     metrics |-> RepoMetrics(repo_url, <<>>), cmds |-> <<>>,
     result |-> None, exc |-> None]

\* the repository an invocation works on: local copies by path, remotes by URL
Repo(t) == IF t.mode = "local" THEN repos[t.repo_dir] ELSE repos[t.repo_url]

\* `return metrics.as_dict()` with the record m
Return(t, m) == [t EXCEPT !.metrics = m, !.pc = "returned", !.result = Some(as_dict(m))]

\* an exception with text e leaves the invocation
Raise(t, e) == [t EXCEPT !.pc = "raised", !.exc = Some(e)]

Ran(t, cmd) == [t EXCEPT !.cmds = Append(@, cmd)]

\* git refuses to work in a directory another user owns unless it is registered
Refused == Exit(128, <<>>, <<"fatal: detected dubious ownership in repository">>)

Git(t, o) ==
    IF o.kind = "exit" /\ Repo(t).dubious /\ t.repo_dir \notin safe_dirs
    THEN Refused ELSE o

(***************************************************************************)
(* The line-count step of both analysers: has_cloc, count_lines_with_cloc, *)
(* count_lines_with_wc.  loc._run catches nothing, so a command that       *)
(* raises ends the step: fault is then the exception's text.               *)
(***************************************************************************)
has_cloc == cloc_on_path

\* the wc commands run, up to and with the first that raises or never exits
\* (subprocess.run is given no timeout: it waits for as long as the command runs)
RECURSIVE WcRun(_, _)
WcRun(files, wc) ==
    IF files = <<>> THEN [cmds |-> <<>>, fault |-> None, hang |-> FALSE]
    ELSE IF wc[Head(files)].kind = "raise"
         THEN [cmds |-> <<"wc">>, fault |-> Some(wc[Head(files)].err), hang |-> FALSE]
         ELSE IF wc[Head(files)].kind = "hang"
         THEN [cmds |-> <<"wc">>, fault |-> None, hang |-> TRUE]
         ELSE LET rest == WcRun(Tail(files), wc)
              IN  [cmds |-> <<"wc">> \o rest.cmds, fault |-> rest.fault,
                   hang |-> rest.hang]

WcStep(w) ==
    IF w.lsfiles.kind = "raise"
    THEN [cmds |-> <<"ls-files">>, fault |-> Some(w.lsfiles.err), total |-> None,
          hang |-> FALSE]
    ELSE IF w.lsfiles.kind = "hang"
    THEN [cmds |-> <<"ls-files">>, fault |-> None, total |-> None, hang |-> TRUE]
    ELSE LET wr == WcRun(Counted(TrackedFiles(loc_run(w.lsfiles).out)), w.wc)
         IN  [cmds |-> <<"ls-files">> \o wr.cmds, fault |-> wr.fault,
              total |-> IF IsNone(wr.fault) /\ ~wr.hang
                        THEN Some(count_lines_with_wc(w.lsfiles, w.wc)) ELSE None,
              hang |-> wr.hang]

\* total_lines = None; if has_cloc(): ...; if total_lines is None: ...
LineCount(w) ==
    IF has_cloc /\ w.cloc.kind = "raise"
    THEN [cmds |-> <<"cloc">>, fault |-> Some(w.cloc.err), total |-> None,
          hang |-> FALSE]
    ELSE IF has_cloc /\ w.cloc.kind = "hang"
    THEN [cmds |-> <<"cloc">>, fault |-> None, total |-> None, hang |-> TRUE]
    ELSE LET first == IF has_cloc THEN count_lines_with_cloc(w.cloc) ELSE None
             ran == IF has_cloc THEN <<"cloc">> ELSE <<>>
         IN  IF ~IsNone(first)
             THEN [cmds |-> ran, fault |-> None, total |-> first, hang |-> FALSE]
             ELSE [WcStep(w) EXCEPT !.cmds = ran \o @]

(***************************************************************************)
(* gitmeta.py: analyze_repo_local, one action per step.                    *)
(***************************************************************************)
local_base == <<"repos">>

\* Path(local_base) / slug.replace('/', '_')
LocalDir(slug) == local_base \o <<"/">> \o Replace(slug, <<"_">>)

\* except Exception as e: metrics.clone_status = f"ERROR: {e}"; return
\* a faulty variant: the fault leaves analyze_repo_local
L_Except_escapes(t, e) == Raise(t, e)

L_Except(t, e) == Return(t, [t.metrics EXCEPT !.clone_status = ERROR(e)])

\* one command of the try block: o its outcome, Then(t, r) the record after it
L_Step(i, here, cmd, o, Then(_, _)) ==
    /\ i \in Tasks
    /\ inv[i].mode = "local"
    /\ inv[i].pc = here
    /\ inv' = [inv EXCEPT ![i] =
                 IF o.kind = "raise" THEN L_Except(Ran(inv[i], cmd), o.err)
                 ELSE Then(Ran(inv[i], cmd), run(o))]
    /\ UNCHANGED <<world, safe_dirs, cfg_lock, tmpdirs, orch, yielded, rows, df>>

L_Start(i) ==
    /\ i \in Tasks
    /\ inv[i].mode = "local"
    /\ inv[i].pc = "start"
    /\ LET slug == parse_slug(inv[i].repo_url)
           metrics == RepoMetrics(inv[i].repo_url, SlugOrEmpty(slug))
       IN  inv' = [inv EXCEPT ![i] =
                     IF IsNone(slug)
                     THEN Return(inv[i], [metrics EXCEPT
                                       !.clone_status = ERROR(<<"invalid GitHub URL">>)])
                     ELSE [inv[i] EXCEPT !.metrics = metrics,
                                    !.repo_dir = LocalDir(Val(slug)),
                                    !.pc = "locate"]]
    /\ UNCHANGED <<world, safe_dirs, cfg_lock, tmpdirs, orch, yielded, rows, df>>

\* repo_dir.exists(): outside the try block, so an OSError leaves the invocation
\* a faulty variant: the record of a missing copy returned as it was created
L_Locate_pending(i) ==
    /\ i \in Tasks
    /\ inv[i].mode = "local"
    /\ inv[i].pc = "locate"
    /\ inv' = [inv EXCEPT ![i] =
                 CASE Repo(inv[i]).exists = "yes" -> [inv[i] EXCEPT !.pc = "safe"]
                   [] Repo(inv[i]).exists = "no" -> Return(inv[i], inv[i].metrics)
                   [] OTHER -> Raise(inv[i], <<"[Errno 13] Permission denied">>)]
    /\ UNCHANGED <<world, safe_dirs, cfg_lock, tmpdirs, orch, yielded, rows, df>>

L_Locate(i) ==
    /\ i \in Tasks
    /\ inv[i].mode = "local"
    /\ inv[i].pc = "locate"
    /\ inv' = [inv EXCEPT ![i] =
                 CASE Repo(inv[i]).exists = "yes" -> [inv[i] EXCEPT !.pc = "safe"]
                   [] Repo(inv[i]).exists = "no" ->
                        Return(inv[i], [inv[i].metrics EXCEPT
                                     !.clone_status = ERROR(<<"not found locally">>)])
                   [] OTHER -> Raise(inv[i], <<"[Errno 13] Permission denied">>)]
    /\ UNCHANGED <<world, safe_dirs, cfg_lock, tmpdirs, orch, yielded, rows, df>>

\* a faulty variant: a registration that does not succeed ends the analysis
L_SafeDir_fatal(i) ==
    /\ i \in Tasks
    /\ inv[i].mode = "local"
    /\ inv[i].pc = "safe"
    /\ LET o == Repo(inv[i]).safe
           t == Ran(inv[i], "safe.directory")
           writes == o.kind = "exit" /\ o.rc = 0 /\ cfg_lock = 0
       IN  /\ inv' = [inv EXCEPT ![i] =
                        IF o.kind = "raise" THEN L_Except(t, o.err)
                        ELSE IF writes THEN [t EXCEPT !.pc = "safe_wait"]
                        ELSE L_Except(t, <<"could not register safe.directory">>)]
           /\ cfg_lock' = IF writes THEN i ELSE cfg_lock
    /\ UNCHANGED <<world, safe_dirs, tmpdirs, orch, yielded, rows, df>>

\* _safe_git_global_safe_dir: git config starts.  It edits the file under a
\* lock it does not wait for, so it exits at once when another holds the lock.
L_SafeDir(i) ==
    /\ i \in Tasks
    /\ inv[i].mode = "local"
    /\ inv[i].pc = "safe"
    /\ LET o == Repo(inv[i]).safe
           t == Ran(inv[i], "safe.directory")
           writes == o.kind = "exit" /\ o.rc = 0 /\ cfg_lock = 0
       IN  /\ inv' = [inv EXCEPT ![i] =
                        IF o.kind = "raise" THEN L_Except(t, o.err)
                        ELSE [t EXCEPT !.pc = IF writes THEN "safe_wait" ELSE "branch"]]
           /\ cfg_lock' = IF writes THEN i ELSE cfg_lock
    /\ UNCHANGED <<world, safe_dirs, tmpdirs, orch, yielded, rows, df>>

\* git config writes the entry, releases the lock and exits; _run returns
L_SafeDirDone(i) ==
    /\ i \in Tasks
    /\ inv[i].mode = "local"
    /\ inv[i].pc = "safe_wait"
    /\ safe_dirs' = safe_dirs \cup {inv[i].repo_dir}
    /\ cfg_lock' = 0
    /\ inv' = [inv EXCEPT ![i].pc = "branch"]
    /\ UNCHANGED <<world, tmpdirs, orch, yielded, rows, df>>

L_Branch(i) ==
    L_Step(i, "branch", "rev-parse", Git(inv[i], Repo(inv[i]).branch),
           LAMBDA t, r : [t EXCEPT !.metrics.default_branch = DefaultBranch(r),
                                   !.pc = "commits"])

L_Commits(i) ==
    L_Step(i, "commits", "rev-list", Git(inv[i], Repo(inv[i]).commits),
           LAMBDA t, r : [t EXCEPT !.commits_count = CommitsCount(r),
                                   !.metrics.commits_count = CommitsCount(r),
                                   !.pc = "dates"])

L_Dates(i) ==
    L_Step(i, "dates", "log", Git(inv[i], Repo(inv[i]).dates),
           LAMBDA t, r : [t EXCEPT !.metrics = SetDates(t.metrics, r), !.pc = "contributors"])

L_Contributors(i) ==
    L_Step(i, "contributors", "shortlog", Git(inv[i], Repo(inv[i]).contributors),
           LAMBDA t, r : [t EXCEPT !.metrics = SetContributors(t.metrics, r),
                                   !.pc = "numstat"])

L_Numstat(i) ==
    L_Step(i, "numstat", "numstat", Git(inv[i], Repo(inv[i]).numstat),
           LAMBDA t, r : [t EXCEPT !.metrics = SetAverage(t.metrics, r, t.commits_count),
                                   !.pc = "loc"])

\* the line count, then metrics.total_lines
L_Loc(i) ==
    /\ i \in Tasks
    /\ inv[i].mode = "local"
    /\ inv[i].pc = "loc"
    /\ LET lc == LineCount(Repo(inv[i]))
           t == [inv[i] EXCEPT !.cmds = @ \o lc.cmds]
       IN  inv' = [inv EXCEPT ![i] =
                     IF lc.hang THEN [t EXCEPT !.pc = "blocked"]
                     ELSE IF ~IsNone(lc.fault) THEN L_Except(t, Val(lc.fault))
                     ELSE [t EXCEPT !.metrics.total_lines = lc.total, !.pc = "size"]]
    /\ UNCHANGED <<world, safe_dirs, cfg_lock, tmpdirs, orch, yielded, rows, df>>

\* a faulty variant: the cleanup of analyze_repo applied to the local copy
L_Size_cleanup(i) ==
    /\ i \in Tasks
    /\ inv[i].mode = "local"
    /\ inv[i].pc = "size"
    /\ inv' = [inv EXCEPT ![i] =
                 Return(inv[i], [inv[i].metrics EXCEPT
                              !.size_on_disk_mb = Some(dir_size_mb(Repo(inv[i]).sizes)),
                              !.clone_status = OK])]
    /\ local_dirs' = local_dirs \ {inv[i].repo_dir}
    /\ UNCHANGED <<urls, jobs, cpu_count, repos, cloc_on_path, rmtree_ok, safe_dirs,
                   cfg_lock, tmpdirs, orch, yielded, rows, df>>

\* _dir_size_mb, clone_status = "OK", return
L_Size(i) ==
    /\ i \in Tasks
    /\ inv[i].mode = "local"
    /\ inv[i].pc = "size"
    /\ inv' = [inv EXCEPT ![i] =
                 Return(inv[i], [inv[i].metrics EXCEPT
                              !.size_on_disk_mb = Some(dir_size_mb(Repo(inv[i]).sizes)),
                              !.clone_status = OK])]
    /\ UNCHANGED <<world, safe_dirs, cfg_lock, tmpdirs, orch, yielded, rows, df>>

(***************************************************************************)
(* gitmeta.py: analyze_repo, one action per step.  Every exit from the try *)
(* block passes through the finally clause.                                *)
(***************************************************************************)
TmpNames == {"k3x9", "q7m2"}

\* the longest error text a failed clone leaves in clone_status
ErrLimit == 240

\* msg[:240]
Truncate(msg) == SubSeq(msg, 1, Min(ErrLimit, Len(msg)))

\* tmpdir / slug.replace('/', '__')
CloneDir(tmpdir, slug) == tmpdir \o <<"/">> \o Replace(slug, <<"_", "_">>)

\* a faulty variant: the cleanup left out of the exit paths
Finally_skipped(t) == tmpdirs

\* finally: if not keep_workdir: shutil.rmtree(tmpdir, ignore_errors=True);
\* a removal that fails is ignored and leaves the directory
Finally(t) ==
    IF t.keep_workdir \/ ~rmtree_ok THEN tmpdirs ELSE tmpdirs \ {t.tmpdir}

\* one command of the try block that does not return: o its outcome
R_Step(i, here, cmd, o, Then(_, _)) ==
    /\ i \in Tasks
    /\ inv[i].mode = "remote"
    /\ inv[i].pc = here
    /\ inv' = [inv EXCEPT ![i] =
                 IF o.kind = "raise" THEN Raise(Ran(inv[i], cmd), o.err)
                 ELSE Then(Ran(inv[i], cmd), run(o))]
    /\ tmpdirs' = IF o.kind = "raise" THEN Finally(inv[i]) ELSE tmpdirs
    /\ UNCHANGED <<world, safe_dirs, cfg_lock, orch, yielded, rows, df>>

\* parse_slug, the invalid-URL return, tempfile.mkdtemp
R_Start(i) ==
    /\ i \in Tasks
    /\ inv[i].mode = "remote"
    /\ inv[i].pc = "start"
    /\ LET slug == parse_slug(inv[i].repo_url)
           metrics == RepoMetrics(inv[i].repo_url, SlugOrEmpty(slug))
       IN  IF IsNone(slug)
           THEN /\ inv' = [inv EXCEPT ![i] =
                             Return(inv[i], [metrics EXCEPT
                                          !.clone_status = ERROR(<<"invalid GitHub URL">>)])]
                /\ tmpdirs' = tmpdirs
           ELSE \E n \in TmpNames :
                  LET tmpdir == <<"/tmp/repo_meta_", n>>
                  IN  /\ tmpdir \notin tmpdirs
                      /\ tmpdirs' = tmpdirs \cup {tmpdir}
                      /\ inv' = [inv EXCEPT ![i] =
                                   [inv[i] EXCEPT !.metrics = metrics,
                                             !.tmpdir = tmpdir,
                                             !.repo_dir = CloneDir(tmpdir, Val(slug)),
                                             !.pc = "clone"]]
    /\ UNCHANGED <<world, safe_dirs, cfg_lock, orch, yielded, rows, df>>

\* git clone; a non-zero return code ends the analysis
R_Clone(i) ==
    /\ i \in Tasks
    /\ inv[i].mode = "remote"
    /\ inv[i].pc = "clone"
    /\ LET o == Repo(inv[i]).clone
           t == Ran(inv[i], "clone")
           r == run(o)
           msg == Strip(IF r.err # <<>> THEN r.err ELSE r.out)
       IN  /\ inv' = [inv EXCEPT ![i] =
                        IF o.kind = "raise" THEN Raise(t, o.err)
                        ELSE IF r.rc # 0
                        THEN Return(t, [t.metrics EXCEPT
                                          !.clone_status = ERROR(Truncate(msg))])
                        ELSE [t EXCEPT !.pc = "safe"]]
           /\ tmpdirs' = IF o.kind = "raise" \/ r.rc # 0 THEN Finally(t) ELSE tmpdirs
    /\ UNCHANGED <<world, safe_dirs, cfg_lock, orch, yielded, rows, df>>

R_SafeDir(i) ==
    /\ i \in Tasks
    /\ inv[i].mode = "remote"
    /\ inv[i].pc = "safe"
    /\ LET o == Repo(inv[i]).safe
           t == Ran(inv[i], "safe.directory")
           writes == o.kind = "exit" /\ o.rc = 0 /\ cfg_lock = 0
       IN  /\ inv' = [inv EXCEPT ![i] =
                        IF o.kind = "raise" THEN Raise(t, o.err)
                        ELSE [t EXCEPT !.pc = IF writes THEN "safe_wait" ELSE "branch"]]
           /\ cfg_lock' = IF writes THEN i ELSE cfg_lock
           /\ tmpdirs' = IF o.kind = "raise" THEN Finally(t) ELSE tmpdirs
    /\ UNCHANGED <<world, safe_dirs, orch, yielded, rows, df>>

\* a faulty variant: the command returns without its entry being written
R_SafeDirDone_lost(i) ==
    /\ i \in Tasks
    /\ inv[i].mode = "remote"
    /\ inv[i].pc = "safe_wait"
    /\ cfg_lock' = 0
    /\ inv' = [inv EXCEPT ![i].pc = "branch"]
    /\ UNCHANGED <<world, safe_dirs, tmpdirs, orch, yielded, rows, df>>

R_SafeDirDone(i) ==
    /\ i \in Tasks
    /\ inv[i].mode = "remote"
    /\ inv[i].pc = "safe_wait"
    /\ safe_dirs' = safe_dirs \cup {inv[i].repo_dir}
    /\ cfg_lock' = 0
    /\ inv' = [inv EXCEPT ![i].pc = "branch"]
    /\ UNCHANGED <<world, tmpdirs, orch, yielded, rows, df>>

R_Branch(i) ==
    R_Step(i, "branch", "rev-parse", Git(inv[i], Repo(inv[i]).branch),
           LAMBDA t, r : [t EXCEPT !.metrics.default_branch = DefaultBranch(r),
                                   !.pc = "commits"])

R_Commits(i) ==
    R_Step(i, "commits", "rev-list", Git(inv[i], Repo(inv[i]).commits),
           LAMBDA t, r : [t EXCEPT !.commits_count = CommitsCount(r),
                                   !.metrics.commits_count = CommitsCount(r),
                                   !.pc = "dates"])

R_Dates(i) ==
    R_Step(i, "dates", "log", Git(inv[i], Repo(inv[i]).dates),
           LAMBDA t, r : [t EXCEPT !.metrics = SetDates(t.metrics, r), !.pc = "contributors"])

R_Contributors(i) ==
    R_Step(i, "contributors", "shortlog", Git(inv[i], Repo(inv[i]).contributors),
           LAMBDA t, r : [t EXCEPT !.metrics = SetContributors(t.metrics, r),
                                   !.pc = "numstat"])

R_Numstat(i) ==
    R_Step(i, "numstat", "numstat", Git(inv[i], Repo(inv[i]).numstat),
           LAMBDA t, r : [t EXCEPT !.metrics = SetAverage(t.metrics, r, t.commits_count),
                                   !.pc = "loc"])

R_Loc(i) ==
    /\ i \in Tasks
    /\ inv[i].mode = "remote"
    /\ inv[i].pc = "loc"
    /\ LET lc == LineCount(Repo(inv[i]))
           t == [inv[i] EXCEPT !.cmds = @ \o lc.cmds]
       IN  /\ inv' = [inv EXCEPT ![i] =
                        IF lc.hang THEN [t EXCEPT !.pc = "blocked"]
                        ELSE IF ~IsNone(lc.fault) THEN Raise(t, Val(lc.fault))
                        ELSE [t EXCEPT !.metrics.total_lines = lc.total, !.pc = "size"]]
           /\ tmpdirs' = IF ~IsNone(lc.fault) THEN Finally(t) ELSE tmpdirs
    /\ UNCHANGED <<world, safe_dirs, cfg_lock, orch, yielded, rows, df>>

R_Size(i) ==
    /\ i \in Tasks
    /\ inv[i].mode = "remote"
    /\ inv[i].pc = "size"
    /\ inv' = [inv EXCEPT ![i] =
                 Return(inv[i], [inv[i].metrics EXCEPT
                              !.size_on_disk_mb = Some(dir_size_mb(Repo(inv[i]).sizes)),
                              !.clone_status = OK])]
    /\ tmpdirs' = Finally(inv[i])
    /\ UNCHANGED <<world, safe_dirs, cfg_lock, orch, yielded, rows, df>>

(***************************************************************************)
(* analysis.py: analyze_from_csv.                                          *)
(***************************************************************************)
\* the number of workers used when neither jobs nor os.cpu_count() gives one
DefaultJobs == 4

\* Python's `x or y` for an optional number
Or(x, y) == IF ~IsNone(x) /\ Val(x) # 0 THEN Val(x) ELSE y

\* a faulty variant: the pool sized by jobs itself, without max(1, ...)
max_workers_raw == Or(jobs, Or(cpu_count, DefaultJobs))

\* ThreadPoolExecutor(max_workers=max(1, jobs)) after jobs = jobs or (cpu_count or 4)
max_workers == Max(1, Or(jobs, Or(cpu_count, DefaultJobs)))

\* a faulty variant: the loop variable of the comprehension, read after the loop left it
FutUrl_last(i) == urls[Len(urls)]

\* futs[fut]: the identifier the future was submitted for
FutUrl(i) == urls[i]

\* the dict comprehension has submitted a call for every url
AllSubmitted == Len(inv) = Len(urls)

\* ex.submit(analyze_repo_local, url, "repos") for the next url of the list
Submit ==
    /\ orch = "run"
    /\ Len(inv) < Len(urls)
    /\ inv' = Append(inv, Invocation("local", urls[Len(inv) + 1], FALSE, "queued"))
    /\ UNCHANGED <<world, safe_dirs, cfg_lock, tmpdirs, orch, yielded, rows, df>>

\* a worker of the pool takes the oldest queued call; the pool has at most
\* max_workers threads
Work(i) ==
    /\ i \in Tasks
    /\ inv[i].pc = "queued"
    /\ \A j \in Tasks : j < i => inv[j].pc # "queued"
    /\ Cardinality({j \in Tasks : Running(inv[j])}) < max_workers
    /\ inv' = [inv EXCEPT ![i].pc = "start"]
    /\ UNCHANGED <<world, safe_dirs, cfg_lock, tmpdirs, orch, yielded, rows, df>>

\* a faulty variant: the fault text stored without the ERROR prefix
ErrorRow_bare(url, e) == [repo_url |-> url, clone_status |-> e]

\* the row the except clause of the loop builds
ErrorRow(url, e) == [repo_url |-> url, clone_status |-> ERROR(e)]

\* the futures as_completed has handed over, as a set
Yielded == {yielded[k] : k \in 1..Len(yielded)}

\* one turn of `for idx, fut in enumerate(as_completed(futs), 1)`
Collect(i) ==
    /\ orch = "run"
    /\ AllSubmitted
    /\ i \in Tasks \ Yielded
    /\ Ended(inv[i])
    /\ yielded' = Append(yielded, i)
    /\ rows' = Append(rows, IF inv[i].pc = "returned" THEN Val(inv[i].result)
                            ELSE ErrorRow(FutUrl(i), Val(inv[i].exc)))
    /\ UNCHANGED <<world, safe_dirs, cfg_lock, tmpdirs, orch, inv, df>>

col_order == <<"repo_url", "repo_slug", "contributors_count", "commits_count",
               "first_commit_iso", "last_commit_iso", "total_lines",
               "avg_lines_changed_per_commit", "default_branch", "size_on_disk_mb",
               "clone_status">>

\* the keys of a row in the order the dict holds them: the fields of the
\* dataclass for asdict, repo_url and clone_status for the row of the except clause
FieldOrder == <<"repo_url", "repo_slug", "contributors_count", "commits_count",
                "first_commit_iso", "last_commit_iso", "total_lines",
                "avg_lines_changed_per_commit", "default_branch", "size_on_disk_mb",
                "clone_status">>
KeyOrder(row) == IF DOMAIN row = Fields THEN FieldOrder ELSE <<"repo_url", "clone_status">>

Range(seq) == {seq[n] : n \in 1..Len(seq)}

\* cols followed by the names of ks it does not have yet
AppendNew(cols, ks) == cols \o SelectSeq(ks, LAMBDA c : c \notin Range(cols))

\* the columns of pd.DataFrame(rows): the keys of the rows by first appearance
RECURSIVE ColumnsOf(_)
ColumnsOf(rs) ==
    IF rs = <<>> THEN <<>>
    ELSE AppendNew(ColumnsOf(SubSeq(rs, 1, Len(rs) - 1)), KeyOrder(rs[Len(rs)]))

\* pd.DataFrame(rows): a key a row lacks is a missing value in its record
DataFrame(rs) ==
    [columns |-> ColumnsOf(rs),
     records |-> [k \in 1..Len(rs) |->
                    [c \in Range(ColumnsOf(rs)) |->
                       IF c \in DOMAIN rs[k] THEN rs[k][c] ELSE None]]]

\* for c in col_order: if c not in df.columns: df[c] = None
AddMissing(d) ==
    [columns |-> AppendNew(d.columns, col_order),
     records |-> [k \in 1..Len(d.records) |->
                    [c \in Range(d.columns) \cup Range(col_order) |->
                       IF c \in Range(d.columns) THEN d.records[k][c] ELSE None]]]

\* df[col_order]
Select(d, order) ==
    [columns |-> order,
     records |-> [k \in 1..Len(d.records) |-> [c \in Range(order) |-> d.records[k][c]]]]

\* a faulty variant: the table returned without the final df[col_order]
Frame_unordered(rs) == AddMissing(DataFrame(rs))

\* the table analyze_from_csv returns for rows
Frame(rs) == Select(AddMissing(DataFrame(rs)), col_order)

\* a faulty variant: the loop left at the first completed future
LoopDone_first == yielded # <<>> \/ Tasks = {}

\* as_completed has nothing left to yield: the loop ends
LoopDone == Yielded = Tasks

\* the loop and the with block end, the table is built and returned
Finish ==
    /\ orch = "run"
    /\ AllSubmitted
    /\ LoopDone
    /\ df' = Some(Frame(rows))
    /\ orch' = "done"
    /\ UNCHANGED <<world, safe_dirs, cfg_lock, tmpdirs, inv, yielded, rows>>

(***************************************************************************)
(* The inputs and the world outside the program.                           *)
(***************************************************************************)
\* the longest identifier list of a batch
MaxUrls == 2

\* the largest commit count a repository reports
MaxCommits == 2

GitHub(path) == <<"https://", "github.com", "/">> \o path

UrlPool == {GitHub(<<"o", "/", "r">>),
            GitHub(<<"o", "/", "s", ".git">>),
            <<"https://", "example.com", "/", "o", "/", "r">>}

\* the local working copies the identifiers of the pool resolve to
Dirs == {LocalDir(Val(parse_slug(u))) : u \in {v \in UrlPool : ~IsNone(parse_slug(v))}}

Queries == {"branch", "commits", "dates", "contributors", "numstat"}

\* what a repository with n commits prints for each query
Good(q, n) ==
    CASE q = "branch" -> Exit(0, <<"main", "\n">>, <<>>)
      [] q = "commits" ->
           Exit(0, <<CHOOSE c \in DOMAIN DigitVal : DigitVal[c] = n, "\n">>, <<>>)
      [] q = "dates" ->
           IF n = 0 THEN Exit(128, <<>>, <<"fatal: no commits yet">>)
           ELSE Exit(0, <<"2025-10-04T09:00:00+00:00", "\n", "\n",
                          " ", "2025-10-05T17:30:00+00:00", "\n">>, <<>>)
      [] q = "contributors" ->
           Exit(0, <<" ", "3", "\t", "Ann <ann@x.org>", "\n",
                     " ", "1", "\t", "Bob <bob@x.org>", "\n">>, <<>>)
      [] q = "numstat" ->
           Exit(0, <<"3", "\t", "1", "\t", "main.go", "\n",
                     "-", "\t", "-", "\t", "photo.PNG", "\n", "\n",
                     "4", "\t", "0", "\t", "README.md", "\n">>, <<>>)

\* the ways a query goes wrong
Flavours == {"exit", "timeout", "hang", "raise", "empty"}

Bad(q, fl) ==
    CASE fl = "exit" -> Exit(128, <<>>, <<"fatal: bad object HEAD">>)
      [] fl = "timeout" -> TimedOut
      [] fl = "hang" -> Hangs
      [] fl = "raise" -> Raises(<<"[Errno 2] No such file or directory: 'git'">>)
      [] fl = "empty" -> Exit(0, IF q = "commits" THEN <<"HEAD", "\n">> ELSE <<"\n">>, <<>>)

MainGo == <<"main", ".go">>
PhotoPng == <<"photo", ".PNG">>

ClocVariants == {"sum", "nosum", "nojson", "fails", "raise", "hang"}
WcVariants == {"ok", "lsfails", "wcfails", "lsraise", "wcraise", "lshang", "wchang"}

Cloc(v) ==
    CASE v = "sum" -> Exit(0, [json |-> TRUE, data |-> [SUM |-> [code |-> 12]]], <<>>)
      [] v = "nosum" -> Exit(0, [json |-> TRUE, data |-> [header |-> [n_files |-> 2]]], <<>>)
      [] v = "nojson" -> Exit(0, [json |-> FALSE], <<>>)
      [] v = "fails" -> Exit(1, <<>>, <<"cloc: error">>)
      [] v = "raise" -> Raises(<<"[Errno 13] Permission denied: 'cloc'">>)
      [] v = "hang" -> Hangs

LsFiles(v) ==
    CASE v = "lsfails" -> Exit(128, <<>>, <<"fatal: not a git repository">>)
      [] v = "lsraise" -> Raises(<<"[Errno 2] No such file or directory: 'git'">>)
      [] v = "lshang" -> Hangs
      [] OTHER -> Exit(0, MainGo \o <<NUL>> \o PhotoPng \o <<NUL>>, <<>>)

Wc(v) ==
    [f \in {MainGo, PhotoPng} |->
       CASE v = "wcfails" -> Exit(1, <<>>, <<"wc: No such file or directory">>)
         [] v = "wcraise" -> Raises(<<"[Errno 2] No such file or directory: 'wc'">>)
         [] v = "wchang" -> Hangs
         [] OTHER -> IF f = MainGo THEN Exit(0, <<"7", " ", "main.go", "\n">>, <<>>)
                     ELSE Exit(0, <<"9", " ", "photo.PNG", "\n">>, <<>>)]

SafeVariants == {"ok", "fails", "timeout", "hang", "raise"}

SafeDir(v) ==
    CASE v = "ok" -> Exit(0, <<>>, <<>>)
      [] v = "fails" -> Exit(255, <<>>, <<"error: could not lock config file">>)
      [] v = "timeout" -> TimedOut
      [] v = "hang" -> Hangs
      [] v = "raise" -> Raises(<<"[Errno 2] No such file or directory: 'git'">>)

CloneVariants == {"ok", "fails", "long", "stdout", "timeout", "hang", "raise"}

Clone(v) ==
    CASE v = "ok" -> Exit(0, <<>>, <<"Cloning into 'o__r'...", "\n">>)
      [] v = "fails" -> Exit(128, <<>>, <<"fatal: repository not found", "\n">>)
      [] v = "long" -> Exit(128, <<>>, [k \in 1..(ErrLimit + 1) |-> "x"])
      [] v = "stdout" -> Exit(1, <<" ", "rejected", "\n">>, <<>>)
      [] v = "timeout" -> TimedOut
      [] v = "hang" -> Hangs
      [] v = "raise" -> Raises(<<"[Errno 2] No such file or directory: 'git'">>)

\* a repository: the queries of S go wrong the way fl says
World(S, fl, n, cv, wv, sv, dub, ex, cl) ==
    [exists |-> ex, dubious |-> dub, clone |-> Clone(cl), safe |-> SafeDir(sv),
     branch |-> IF "branch" \in S THEN Bad("branch", fl) ELSE Good("branch", n),
     commits |-> IF "commits" \in S THEN Bad("commits", fl) ELSE Good("commits", n),
     dates |-> IF "dates" \in S THEN Bad("dates", fl) ELSE Good("dates", n),
     contributors |-> IF "contributors" \in S THEN Bad("contributors", fl)
                      ELSE Good("contributors", n),
     numstat |-> IF "numstat" \in S THEN Bad("numstat", fl) ELSE Good("numstat", n),
     cloc |-> Cloc(cv), lsfiles |-> LsFiles(wv), wc |-> Wc(wv),
     sizes |-> <<524288, 1048576, 5243>>]

Healthy == World({}, "exit", MaxCommits, "sum", "ok", "ok", FALSE, "yes", "ok")

\* the repositories a single invocation is tried on
AnalyzerWorlds ==
    {World(S, fl, n, "sum", "ok", "ok", FALSE, "yes", "ok") :
        S \in SUBSET Queries, fl \in Flavours, n \in 0..MaxCommits}
    \cup {World({}, "exit", MaxCommits, cv, wv, "ok", FALSE, "yes", "ok") :
            cv \in ClocVariants, wv \in WcVariants}
    \cup {World({}, "exit", MaxCommits, "sum", "ok", sv, dub, "yes", "ok") :
            sv \in SafeVariants, dub \in BOOLEAN}
    \cup {World({}, "exit", MaxCommits, "sum", "ok", "ok", FALSE, ex, cl) :
            ex \in {"yes", "no", "oserror"}, cl \in CloneVariants}

\* the repositories of a batch: owned by another user, not there, unreadable,
\* one whose contributor query raises after a failed registration, and one
\* owned by another user whose registration times out
Dubious == World({}, "exit", MaxCommits, "sum", "ok", "ok", TRUE, "yes", "ok")
Missing == World({}, "exit", MaxCommits, "sum", "ok", "ok", FALSE, "no", "ok")
Unreadable == World({}, "exit", MaxCommits, "sum", "ok", "ok", FALSE, "oserror", "ok")
Broken == World({"contributors"}, "raise", 0, "fails", "ok", "fails", FALSE, "yes", "ok")
Unregistered == World({}, "exit", MaxCommits, "sum", "ok", "timeout", TRUE, "yes", "ok")

\* the working copies under repos/ of a batch: those of o/r and of o/s
BatchRepos ==
    {[d \in Dirs |-> IF d = LocalDir(<<"o", "/", "r">>) THEN p[1] ELSE p[2]] :
        p \in {<<Healthy, Healthy>>, <<Dubious, Dubious>>, <<Broken, Dubious>>,
               <<Unreadable, Healthy>>, <<Unregistered, Missing>>, <<Missing, Unreadable>>}}

\* the local base directory and the working copies that exist under it
OnDisk(rs) == {local_base} \cup {d \in Dirs : rs[d].exists # "no"}

\* jobs and os.cpu_count()
Settings == {<<None, None>>, <<Some(0), Some(1)>>, <<Some(-1), Some(2)>>,
             <<Some(8), Some(2)>>}

UrlLists == UNION {[1..n -> UrlPool] : n \in 0..MaxUrls}

(***************************************************************************)
(* A batch: analyze_from_csv over a list of identifiers.                   *)
(***************************************************************************)
Init ==
    /\ urls \in UrlLists
    /\ \E s \in Settings : jobs = s[1] /\ cpu_count = s[2]
    /\ repos \in BatchRepos
    /\ cloc_on_path = TRUE
    /\ rmtree_ok = TRUE
    /\ local_dirs = OnDisk(repos)
    /\ safe_dirs = {}
    /\ cfg_lock = 0
    /\ tmpdirs = {}
    /\ orch = "run"
    /\ inv = <<>>
    /\ yielded = <<>>
    /\ rows = <<>>
    /\ df = None

Next ==
    \/ Submit
    \/ \E i \in Tasks : Work(i)
    \/ \E i \in Tasks : L_Start(i)
    \/ \E i \in Tasks : L_Locate(i)
    \/ \E i \in Tasks : L_SafeDir(i)
    \/ \E i \in Tasks : L_SafeDirDone(i)
    \/ \E i \in Tasks : L_Branch(i)
    \/ \E i \in Tasks : L_Commits(i)
    \/ \E i \in Tasks : L_Dates(i)
    \/ \E i \in Tasks : L_Contributors(i)
    \/ \E i \in Tasks : L_Numstat(i)
    \/ \E i \in Tasks : L_Loc(i)
    \/ \E i \in Tasks : L_Size(i)
    \/ \E i \in Tasks : Collect(i)
    \/ Finish

Spec == Init /\ [][Next]_vars

(***************************************************************************)
(* One direct call of analyze_repo_local or analyze_repo.                  *)
(***************************************************************************)
InitAnalyzer ==
    /\ urls = <<>>
    /\ jobs = None
    /\ cpu_count = None
    /\ \E w \in AnalyzerWorlds : repos = [k \in Dirs \cup UrlPool |-> w]
    /\ cloc_on_path \in BOOLEAN
    /\ rmtree_ok \in BOOLEAN
    /\ local_dirs = OnDisk(repos)
    /\ safe_dirs = {}
    /\ cfg_lock = 0
    /\ tmpdirs = {}
    /\ orch = "direct"
    /\ \E u \in UrlPool, mode \in {"local", "remote"}, keep \in BOOLEAN :
         /\ mode = "local" => ~keep
         /\ inv = <<Invocation(mode, u, keep, "start")>>
    /\ yielded = <<>>
    /\ rows = <<>>
    /\ df = None

NextAnalyzer ==
    \/ \E i \in Tasks : L_Start(i)
    \/ \E i \in Tasks : L_Locate(i)
    \/ \E i \in Tasks : L_SafeDir(i)
    \/ \E i \in Tasks : L_SafeDirDone(i)
    \/ \E i \in Tasks : L_Branch(i)
    \/ \E i \in Tasks : L_Commits(i)
    \/ \E i \in Tasks : L_Dates(i)
    \/ \E i \in Tasks : L_Contributors(i)
    \/ \E i \in Tasks : L_Numstat(i)
    \/ \E i \in Tasks : L_Loc(i)
    \/ \E i \in Tasks : L_Size(i)
    \/ \E i \in Tasks : R_Start(i)
    \/ \E i \in Tasks : R_Clone(i)
    \/ \E i \in Tasks : R_SafeDir(i)
    \/ \E i \in Tasks : R_SafeDirDone(i)
    \/ \E i \in Tasks : R_Branch(i)
    \/ \E i \in Tasks : R_Commits(i)
    \/ \E i \in Tasks : R_Dates(i)
    \/ \E i \in Tasks : R_Contributors(i)
    \/ \E i \in Tasks : R_Numstat(i)
    \/ \E i \in Tasks : R_Loc(i)
    \/ \E i \in Tasks : R_Size(i)

SpecAnalyzer == InitAnalyzer /\ [][NextAnalyzer]_vars

(***************************************************************************)
(* parse_slug on its own: one invocation of either analyser on a URL drawn  *)
(* from the texts of at most MaxPath atoms after a host, taken to the end   *)
(* of its first step, the one that calls parse_slug.                        *)
(***************************************************************************)
MaxPath == 5

PathAtoms == {"/", "foo", "bar", ".git", "?tab=readme"}

Hosts == {<<"https://", "github.com">>,
          <<"HTTP://", "WWW.", "GitHub.com">>,
          <<" ", "https://", "github.com">>,
          <<"https://", "example.com">>,
          <<"github.com">>}

SlugInputs ==
    {h \o p : h \in Hosts, p \in UNION {[1..n -> PathAtoms] : n \in 0..MaxPath}}

InitSlug ==
    /\ urls = <<>>
    /\ jobs = None
    /\ cpu_count = None
    /\ repos = [k \in Dirs \cup UrlPool |-> Healthy]
    /\ cloc_on_path = TRUE
    /\ rmtree_ok = TRUE
    /\ local_dirs = OnDisk(repos)
    /\ safe_dirs = {}
    /\ cfg_lock = 0
    /\ tmpdirs = {}
    /\ orch = "direct"
    /\ \E u \in SlugInputs, mode \in {"local", "remote"} :
         inv = <<Invocation(mode, u, FALSE, "start")>>
    /\ yielded = <<>>
    /\ rows = <<>>
    /\ df = None

NextSlug ==
    \/ \E i \in Tasks : L_Start(i)
    \/ \E i \in Tasks : R_Start(i)

SpecSlug == InitSlug /\ [][NextSlug]_vars

(***************************************************************************)
(* Properties of a batch (Spec).                                           *)
(***************************************************************************)
Count(seq, P(_)) == Cardinality({k \in 1..Len(seq) : P(seq[k])})

FullRecord(row) == DOMAIN row = Fields
MinimalRecord(row) ==
    /\ DOMAIN row = {"repo_url", "clone_status"}
    /\ Len(row.clone_status) >= 1
    /\ row.clone_status[1] = "ERROR: "

\* C1: the batch returned has one record per input identifier: as many records
\* as identifiers, every identifier the repo_url of as many records as it occurs
\* in the input (once, when it is not repeated), and each record either a full
\* metrics record or a minimal one of identifier and error status.
C1_OneRecordPerIdentifier ==
    orch = "done" =>
        /\ Len(rows) = Len(urls)
        /\ Len(Val(df).records) = Len(urls)
        /\ \A u \in UrlPool :
             Count(Val(df).records, LAMBDA rec : rec.repo_url = u)
               = Count(urls, LAMBDA v : v = u)
        /\ \A k \in 1..Len(rows) :
             /\ Val(df).records[k].repo_url = rows[k].repo_url
             /\ Val(df).records[k].clone_status = rows[k].clone_status
             /\ FullRecord(rows[k]) \/ MinimalRecord(rows[k])
             /\ MinimalRecord(rows[k]) =>
                  \A c \in Analytical \cup {"repo_slug"} : Val(df).records[k][c] = None

\* a batch over a repeated identifier, returned with a minimal record
C1_Witness ==
    /\ orch = "done"
    /\ Len(urls) >= 2
    /\ \E i, j \in 1..Len(urls) : i # j /\ urls[i] = urls[j]
    /\ \E k \in 1..Len(rows) : MinimalRecord(rows[k])

\* C2: a fault that leaves one invocation becomes, at the loop of the
\* orchestrator, the minimal record (identifier, "ERROR: <fault text>") of that
\* identifier; every other invocation's record is the one its analysis returned,
\* and the orchestrator goes on to return a record for every identifier.
C2_FaultIsolated ==
    /\ Len(rows) = Len(yielded)
    /\ \A k \in 1..Len(rows) :
         LET i == yielded[k]
         IN  IF inv[i].pc = "raised"
             THEN rows[k] = [repo_url |-> urls[i],
                             clone_status |-> <<"ERROR: ">> \o Val(inv[i].exc)]
             ELSE /\ inv[i].pc = "returned"
                  /\ rows[k] = Val(inv[i].result)
                  /\ rows[k].repo_url = urls[i]
    /\ orch = "done" => Yielded = 1..Len(urls)

\* a batch returned in which one analysis raised and a sibling ended with OK
C2_Witness ==
    /\ orch = "done"
    /\ \E i, j \in Tasks :
         /\ inv[i].pc = "raised"
         /\ inv[j].pc = "returned"
         /\ inv[j].metrics.clone_status = OK
         /\ \E k \in 1..Len(rows) : FullRecord(rows[k]) /\ rows[k].clone_status = OK

\* C3: the orchestrator returns only once every identifier was dispatched and
\* every dispatched invocation has ended; an invocation that ended in an error
\* or that is slow never takes a sibling out of the pool.
C3_ReturnsAfterAll ==
    /\ orch = "done" =>
         /\ Len(inv) = Len(urls)
         /\ \A i \in Tasks : Ended(inv[i])
    /\ (\E i \in Tasks : ~Ended(inv[i])) => orch = "run"
    /\ \A i \in Tasks : inv[i].pc \notin {"cancelled", "new"}

\* a batch returned whose first invocation ended after the second, which failed
C3_Witness ==
    /\ orch = "done"
    /\ Len(yielded) = 2
    /\ yielded[1] = 2
    /\ rows[1].clone_status # OK
    /\ rows[2].clone_status = OK

\* C9: never more invocations execute at once than the pool has workers; the
\* pool has the configured number of workers (jobs, else the number of
\* processing units, else 4) and never fewer than one; one invocation is
\* dispatched per identifier, in the order of the list.
C9_BoundedPool ==
    /\ Cardinality({i \in Tasks : Running(inv[i])}) <= max_workers
    /\ max_workers >= 1
    /\ (~IsNone(jobs) /\ Val(jobs) >= 1) => max_workers = Val(jobs)
    /\ (IsNone(jobs) /\ ~IsNone(cpu_count) /\ Val(cpu_count) >= 1)
         => max_workers = Val(cpu_count)
    /\ Len(inv) <= Len(urls)
    /\ \A i \in Tasks : inv[i].repo_url = urls[i] /\ inv[i].mode = "local"

\* the pool of one worker is busy and a dispatched invocation waits for it,
\* under a negative jobs setting
C9_Witness ==
    /\ ~IsNone(jobs)
    /\ Val(jobs) < 0
    /\ \E i, j \in Tasks : Running(inv[i]) /\ inv[j].pc = "queued"

(***************************************************************************)
(* Properties of one analyser invocation (SpecAnalyzer).                   *)
(***************************************************************************)
Remote(i) == inv[i].mode = "remote"
Local(i) == inv[i].mode = "local"

\* the invocation has a working copy path: the identifier was accepted
Accepted(i) == inv[i].repo_dir # <<>>

\* every analytical field of record m is absent
NoAnalysis(m) == \A f \in Analytical : m[f] = None

\* C4 as stated: once a remote invocation has ended, on whatever exit path, its
\* temporary working-copy directory is no longer on disk.
C4_AlwaysRemoved ==
    \A i \in Tasks : (Remote(i) /\ Ended(inv[i])) => inv[i].tmpdir \notin tmpdirs

\* C4 amended: the temporary directory is on disk while a remote invocation
\* runs; once the invocation has ended, by return or by exception, the directory
\* is gone when keep_workdir is false and the removal succeeds, and it is still
\* there when keep_workdir is true or the (ignored) removal failed.
C4_RemovedUnlessKept ==
    \A i \in Tasks :
        (Remote(i) /\ Accepted(i)) =>
            /\ Running(inv[i]) => inv[i].tmpdir \in tmpdirs
            /\ Ended(inv[i]) =>
                 (inv[i].tmpdir \in tmpdirs <=> (inv[i].keep_workdir \/ ~rmtree_ok))

\* a remote invocation without keep_workdir that an exception of a query ended:
\* its directory is gone
C4_Witness ==
    \E i \in Tasks :
        /\ Remote(i) /\ Accepted(i)
        /\ ~inv[i].keep_workdir
        /\ inv[i].pc = "raised"
        /\ Len(inv[i].cmds) >= 3
        /\ inv[i].tmpdir \notin tmpdirs

\* the locate step of the invocation fails: no local copy, or a clone that
\* returns non-zero (a timeout is returned as 1)
LocateFails(i) ==
    /\ Accepted(i)
    /\ IF Local(i) THEN Repo(inv[i]).exists = "no"
       ELSE \/ Repo(inv[i]).clone.kind \in {"timeout", "hang"}
            \/ Repo(inv[i]).clone.kind = "exit" /\ Repo(inv[i]).clone.rc # 0

\* C5: when the locate step fails, no command other than the clone itself is
\* ever run, and the invocation returns a record whose status is an error text
\* describing the failure (never OK) and whose analytical fields are all absent.
C5_LocateFailure ==
    \A i \in Tasks :
        LocateFails(i) =>
            /\ inv[i].pc \in {"locate", "clone", "returned"}
            /\ inv[i].cmds = IF Remote(i) /\ inv[i].pc = "returned"
                             THEN <<"clone">> ELSE <<>>
            /\ inv[i].pc = "returned" =>
                 LET rec == Val(inv[i].result)
                 IN  /\ NoAnalysis(rec)
                     /\ rec.clone_status # OK
                     /\ rec.clone_status[1] = "ERROR: "
                     /\ Len(rec.clone_status) \in 2..(1 + ErrLimit)
                     /\ Local(i) => rec.clone_status = <<"ERROR: ", "not found locally">>
                     /\ (Remote(i) /\ Repo(inv[i]).clone.kind \in {"timeout", "hang"})
                          => rec.clone_status = <<"ERROR: ", "Timeout after 60s">>

\* a remote invocation whose clone timed out has returned its error record
C5_Witness ==
    \E i \in Tasks :
        /\ Remote(i) /\ LocateFails(i)
        /\ Repo(inv[i]).clone.kind = "timeout"
        /\ inv[i].pc = "returned"
        /\ NoAnalysis(Val(inv[i].result))

\* C6: for an identifier parse_slug rejects, the analyser returns at once the
\* record (identifier, empty slug, "ERROR: invalid GitHub URL") with every other
\* field absent; it runs no command, locates nothing and creates no directory.
C6_InvalidIdentifier ==
    \A i \in Tasks :
        (IsNone(parse_slug(inv[i].repo_url)) /\ inv[i].pc \notin {"queued", "start"}) =>
            /\ inv[i].pc = "returned"
            /\ inv[i].cmds = <<>>
            /\ inv[i].repo_dir = <<>>
            /\ inv[i].tmpdir = <<>>
            /\ tmpdirs = {}
            /\ safe_dirs = {}
            /\ Val(inv[i].result) =
                 [f \in Fields |->
                    CASE f = "repo_url" -> inv[i].repo_url
                      [] f = "repo_slug" -> <<>>
                      [] f = "clone_status" -> <<"ERROR: ", "invalid GitHub URL">>
                      [] OTHER -> None]

\* a remote invocation on an identifier of another host has returned
C6_Witness ==
    \E i \in Tasks :
        /\ Remote(i)
        /\ inv[i].repo_url = <<"https://", "example.com", "/", "o", "/", "r">>
        /\ inv[i].pc = "returned"

\* the five queries of the analysers, in the order they are run
QueryCmds == <<"rev-parse", "rev-list", "log", "shortlog", "numstat">>

\* git refuses the queries of invocation i: dubious ownership, not registered
Untrusted(i) == Repo(inv[i]).dubious /\ inv[i].repo_dir \notin safe_dirs

\* query q of invocation i fails: it does not exit in time, or exits with a
\* non-zero code
Failed(i, q) ==
    LET o == Repo(inv[i])[q]
    IN  \/ o.kind \in {"timeout", "hang"}
        \/ o.kind = "exit" /\ (o.rc # 0 \/ Untrusted(i))

\* query q of invocation i answers as a repository of n commits does
Answers(i, q, n) ==
    /\ ~Failed(i, q)
    /\ Repo(inv[i])[q] = Good(q, n)

\* no command of invocation i raises an exception
NoFault(i) ==
    /\ \A q \in Queries : Repo(inv[i])[q].kind # "raise"
    /\ Repo(inv[i]).safe.kind # "raise"
    /\ Repo(inv[i]).cloc.kind # "raise"
    /\ Repo(inv[i]).lsfiles.kind # "raise"
    /\ \A f \in DOMAIN Repo(inv[i]).wc : Repo(inv[i]).wc[f].kind # "raise"

\* the working copy of invocation i was located
Located(i) ==
    /\ Accepted(i)
    /\ IF Local(i) THEN Repo(inv[i]).exists = "yes"
       ELSE Repo(inv[i]).clone.kind = "exit" /\ Repo(inv[i]).clone.rc = 0

\* the average of the 8 changed lines of a repository over n commits, in hundredths
AvgOf8 == [n \in 1..4 |-> CASE n = 1 -> 800 [] n = 2 -> 400 [] n = 3 -> 267 [] n = 4 -> 200]

\* C7: whatever subset of the five queries fails (non-zero exit or timeout), the
\* invocation runs all five, then the line count and the size, and returns with
\* status OK; a field is absent when its own query failed and populated with the
\* query's value when its own query answered, whatever the other queries did
\* (the average needs both the change statistics and a positive commit count).
C7_QueriesIndependent ==
    \A i \in Tasks :
        (Located(i) /\ NoFault(i) /\ Ended(inv[i])) =>
            LET rec == Val(inv[i].result)
            IN  /\ inv[i].pc = "returned"
                /\ SelectSeq(inv[i].cmds,
                             LAMBDA c : \E k \in 1..Len(QueryCmds) : QueryCmds[k] = c)
                     = QueryCmds
                /\ rec.clone_status = OK
                /\ rec.total_lines # None
                /\ rec.size_on_disk_mb # None
                /\ Failed(i, "branch") => rec.default_branch = None
                /\ Failed(i, "commits") => rec.commits_count = None
                /\ Failed(i, "dates") =>
                     rec.first_commit_iso = None /\ rec.last_commit_iso = None
                /\ Failed(i, "contributors") => rec.contributors_count = None
                /\ (Failed(i, "numstat") \/ Failed(i, "commits"))
                     => rec.avg_lines_changed_per_commit = None
                /\ \A n \in 0..(MaxCommits + 1) :
                     /\ Answers(i, "branch", n) => rec.default_branch = Some(<<"main">>)
                     /\ Answers(i, "commits", n) => rec.commits_count = Some(n)
                     /\ Answers(i, "dates", n) =>
                          /\ rec.first_commit_iso = Some(<<"2025-10-04T09:00:00+00:00">>)
                          /\ rec.last_commit_iso = Some(<<"2025-10-05T17:30:00+00:00">>)
                     /\ Answers(i, "contributors", n) => rec.contributors_count = Some(2)
                     /\ (Answers(i, "numstat", n) /\ Answers(i, "commits", n) /\ n > 0)
                          => rec.avg_lines_changed_per_commit = Some(AvgOf8[n])

\* the commit-count query timed out and the other four answered: the record
\* lacks the count and has the branch, the dates and the contributors
C7_Witness ==
    \E i \in Tasks :
        /\ Local(i) /\ Located(i) /\ NoFault(i)
        /\ inv[i].pc = "returned"
        /\ Repo(inv[i]).commits.kind = "timeout"
        /\ \A q \in Queries \ {"commits"} : Answers(i, q, MaxCommits)
        /\ inv[i].metrics.commits_count = None
        /\ inv[i].metrics.default_branch # None
        /\ inv[i].metrics.first_commit_iso # None
        /\ inv[i].metrics.contributors_count # None
        /\ inv[i].metrics.total_lines # None

\* C8: in every record, at every step, an absent or zero commit count goes with
\* an absent average; an average is only ever computed from a commit count the
\* analyser holds and that is positive.
C8_NoAverageWithoutCommits ==
    \A i \in Tasks :
        LET m == inv[i].metrics
        IN  /\ (m.commits_count = None \/ m.commits_count = Some(0))
                 => m.avg_lines_changed_per_commit = None
            /\ m.avg_lines_changed_per_commit # None =>
                 /\ inv[i].commits_count # None
                 /\ Val(inv[i].commits_count) > 0
                 /\ m.commits_count = inv[i].commits_count
            /\ inv[i].pc = "returned" => Val(inv[i].result) = as_dict(m)

\* a repository without commits whose change statistics query succeeded: the
\* record returned has the count 0 and no average
C8_Witness ==
    \E i \in Tasks :
        /\ inv[i].pc = "returned"
        /\ Located(i)
        /\ Val(inv[i].result).commits_count = Some(0)
        /\ Repo(inv[i]).numstat.kind = "exit"
        /\ Repo(inv[i]).numstat.rc = 0
        /\ "numstat" \in {inv[i].cmds[k] : k \in 1..Len(inv[i].cmds)}
        /\ Val(inv[i].result).avg_lines_changed_per_commit = None

(***************************************************************************)
(* The record of an identifier in a batch run with concurrency 1: the      *)
(* analyses run one after the other, so each registration finds the        *)
(* configuration's lock free and succeeds when its command does.           *)
(***************************************************************************)
SeqQueries == <<"branch", "commits", "dates", "contributors", "numstat">>

\* a query in working copy w, refused unless the registration of w succeeded
SeqGit(w, o) ==
    IF o.kind = "exit" /\ w.dubious /\ ~(w.safe.kind = "exit" /\ w.safe.rc = 0)
    THEN Refused ELSE o

SeqApply(k, t, r) ==
    CASE k = 1 -> [t EXCEPT !.metrics.default_branch = DefaultBranch(r)]
      [] k = 2 -> [t EXCEPT !.commits_count = CommitsCount(r),
                            !.metrics.commits_count = CommitsCount(r)]
      [] k = 3 -> [t EXCEPT !.metrics = SetDates(t.metrics, r)]
      [] k = 4 -> [t EXCEPT !.metrics = SetContributors(t.metrics, r)]
      [] k = 5 -> [t EXCEPT !.metrics = SetAverage(t.metrics, r, t.commits_count)]

SeqError(t, e) == as_dict([t.metrics EXCEPT !.clone_status = ERROR(e)])

SeqEnd(t, w) ==
    LET lc == LineCount(w)
    IN  IF ~IsNone(lc.fault) THEN SeqError(t, Val(lc.fault))
        ELSE as_dict([t.metrics EXCEPT !.total_lines = lc.total,
                                       !.size_on_disk_mb = Some(dir_size_mb(w.sizes)),
                                       !.clone_status = OK])

RECURSIVE SeqFrom(_, _, _)
SeqFrom(k, t, w) ==
    IF k > Len(SeqQueries) THEN SeqEnd(t, w)
    ELSE LET o == SeqGit(w, w[SeqQueries[k]])
         IN  IF o.kind = "raise" THEN SeqError(t, o.err)
             ELSE SeqFrom(k + 1, SeqApply(k, t, run(o)), w)

SequentialRecord(url) ==
    LET slug == parse_slug(url)
        m0 == RepoMetrics(url, SlugOrEmpty(slug))
        w == repos[LocalDir(Val(slug))]
        t == [metrics |-> m0, commits_count |-> None]
    IN  IF IsNone(slug)
        THEN as_dict([m0 EXCEPT !.clone_status = ERROR(<<"invalid GitHub URL">>)])
        ELSE CASE w.exists = "no" ->
                    as_dict([m0 EXCEPT !.clone_status = ERROR(<<"not found locally">>)])
               [] w.exists = "yes" ->
                    IF w.safe.kind = "raise" THEN SeqError(t, w.safe.err)
                    ELSE SeqFrom(1, t, w)
               [] OTHER -> ErrorRow(url, <<"[Errno 13] Permission denied">>)

\* a batch run with one worker returns, for every identifier, its sequential
\* record
SequentialRun ==
    (orch = "done" /\ max_workers = 1) =>
        \A k \in 1..Len(rows) : rows[k] = SequentialRecord(urls[yielded[k]])

\* C10: whatever the concurrency, and however the concurrent analyses and
\* their registrations of trusted directories interleave, the batch returned
\* holds for every identifier the record the run with concurrency 1 returns.
C10_SameAsSequential ==
    orch = "done" =>
        \A k \in 1..Len(rows) : rows[k] = SequentialRecord(urls[yielded[k]])

(***************************************************************************)
(* Further properties of one analyser invocation (SpecAnalyzer).           *)
(***************************************************************************)
\* the commands run against a working copy: the queries and the line count
CopyCmds == {QueryCmds[k] : k \in 1..Len(QueryCmds)} \cup {"cloc", "ls-files", "wc"}

\* invocation i has run a command against its working copy
Queried(i) == \E k \in 1..Len(inv[i].cmds) : inv[i].cmds[k] \in CopyCmds

\* the registration command of invocation i exits with 0
RegistrationSucceeds(i) ==
    Repo(inv[i]).safe.kind = "exit" /\ Repo(inv[i]).safe.rc = 0

Blocked(i) == inv[i].pc = "blocked"

\* C12: every external command of an analysis is a call with bounded wait, so
\* no invocation ever waits for a command past a timeout, whatever the command
\* does (a command that never exits included), and every invocation ends.
C12_BoundedWait ==
    \A i \in Tasks : ~Blocked(i)

\* the first tier gives no count: cloc is not installed, exits with an error or
\* prints nothing count_lines_with_cloc can read a total from
ClocTierFails(i) ==
    \/ ~has_cloc
    \/ /\ Repo(inv[i]).cloc.kind = "exit"
       /\ count_lines_with_cloc(Repo(inv[i]).cloc) = None

\* the second tier fails: the enumeration of the tracked files exits with an error
WcTierFails(i) ==
    Repo(inv[i]).lsfiles.kind = "exit" /\ Repo(inv[i]).lsfiles.rc # 0

\* C13: when both tiers of the line count fail, the record the analyser
\* returns has no total_lines, rather than a number.
C13_AbsentWhenBothTiersFail ==
    \A i \in Tasks :
        (inv[i].pc = "returned" /\ Located(i) /\ NoFault(i)
           /\ ClocTierFails(i) /\ WcTierFails(i))
          => Val(inv[i].result).total_lines = None

\* C14: an analysis in local mode deletes nothing: at every step and on every
\* exit path the local base directory and the working copies under it are on
\* disk exactly as before the invocation, the working copy analysed is one of
\* them, and the only directories ever removed are the temporary ones a remote
\* invocation created.
C14_LocalCopyKept ==
    /\ local_dirs = OnDisk(repos)
    /\ local_dirs \cap tmpdirs = {}
    /\ \A i \in Tasks :
         /\ Local(i) => inv[i].tmpdir = <<>>
         /\ (Local(i) /\ Located(i)) => inv[i].repo_dir \in local_dirs
         /\ Remote(i) => inv[i].repo_dir \notin local_dirs

\* a local invocation has returned OK and its working copy is still on disk
C14_Witness ==
    \E i \in Tasks :
        /\ Local(i) /\ Located(i)
        /\ inv[i].pc = "returned"
        /\ inv[i].metrics.clone_status = OK
        /\ inv[i].repo_dir \in local_dirs

(***************************************************************************)
(* Further properties of a batch (Spec).                                   *)
(***************************************************************************)
\* C15: whatever the identifier list, repeated identifiers included, no two
\* analyses of a batch that execute at the same time work in the same
\* working-copy directory.
C15_DistinctDirectories ==
    \A i, j \in Tasks :
        (i # j /\ Running(inv[i]) /\ Running(inv[j]) /\ Accepted(i) /\ Accepted(j))
          => inv[i].repo_dir # inv[j].repo_dir

\* invocation i is past its registration step
PastRegistration(i) ==
    inv[i].pc \notin {"queued", "start", "locate", "safe", "safe_wait"}

\* C16: whatever the registration command does short of raising (exit with an
\* error, time out, find the configuration locked by a sibling), the invocation
\* goes on: it runs the five queries and the line count and returns with status
\* OK, whether or not its path ended up registered.
C16_RegistrationNotFatal ==
    \A i \in Tasks :
        (Located(i) /\ NoFault(i) /\ PastRegistration(i)) =>
            /\ inv[i].cmds[1] = "safe.directory"
            /\ inv[i].pc # "raised"
            /\ inv[i].metrics.clone_status \in {PENDING, OK}
            /\ Ended(inv[i]) =>
                 /\ Val(inv[i].result).clone_status = OK
                 /\ SelectSeq(inv[i].cmds,
                              LAMBDA c : \E k \in 1..Len(QueryCmds) : QueryCmds[k] = c)
                      = QueryCmds
                 /\ \E k \in 1..Len(inv[i].cmds) : inv[i].cmds[k] \in {"cloc", "ls-files"}

\* an analysis whose registration command would have succeeded lost the lock to
\* a sibling: its path is not registered, and it has returned with status OK
C16_Witness ==
    \E i \in Tasks :
        /\ Located(i) /\ NoFault(i)
        /\ RegistrationSucceeds(i)
        /\ inv[i].pc = "returned"
        /\ inv[i].repo_dir \notin safe_dirs
        /\ Val(inv[i].result).clone_status = OK

\* C17: the table returned has the eleven declared columns, in the declared
\* order, for every batch (the empty one and one of minimal records only
\* included); every record has a value or an absent value under every column,
\* and a field its row lacks is absent, not omitted.
C17_DeclaredColumns ==
    orch = "done" =>
        LET t == Val(df)
            names == {"repo_url", "repo_slug", "contributors_count", "commits_count",
                      "first_commit_iso", "last_commit_iso", "total_lines",
                      "avg_lines_changed_per_commit", "default_branch",
                      "size_on_disk_mb", "clone_status"}
        IN  /\ t.columns = <<"repo_url", "repo_slug", "contributors_count",
                             "commits_count", "first_commit_iso", "last_commit_iso",
                             "total_lines", "avg_lines_changed_per_commit",
                             "default_branch", "size_on_disk_mb", "clone_status">>
            /\ Len(t.records) = Len(rows)
            /\ \A k \in 1..Len(rows) :
                 /\ DOMAIN t.records[k] = names
                 /\ \A c \in names :
                      t.records[k][c] = IF c \in DOMAIN rows[k] THEN rows[k][c] ELSE None

\* a batch whose first row is the minimal one of an escaped fault and whose
\* second row is a full record: the frame built from the rows has clone_status
\* as its second column
C17_Witness ==
    /\ orch = "done"
    /\ Len(rows) = 2
    /\ MinimalRecord(rows[1])
    /\ FullRecord(rows[2])
    /\ DataFrame(rows).columns[2] = "clone_status"

\* the slug the first step of invocation i obtained from its URL, None when
\* the step returned the invalid-URL record
Normalised(i) ==
    IF inv[i].pc = "returned" THEN None ELSE Some(inv[i].metrics.repo_slug)

\* the path of a URL text ends where its query begins
IsQuery(a) == a = "?tab=readme"
PathPart(r) ==
    IF \E k \in 1..Len(r) : IsQuery(r[k])
    THEN SubSeq(r, 1, (CHOOSE k \in 1..Len(r) :
                          IsQuery(r[k]) /\ \A j \in 1..(k - 1) : ~IsQuery(r[j])) - 1)
    ELSE r

\* the position of the first "/" of p at or after k, Len(p) + 1 when there is none
NextSlash(p, k) ==
    IF \E j \in k..Len(p) : p[j] = "/"
    THEN CHOOSE j \in k..Len(p) : p[j] = "/" /\ \A n \in k..(j - 1) : p[n] # "/"
    ELSE Len(p) + 1

\* a name without its trailing ".git"
StripGit(n) ==
    IF n # <<>> /\ Lower(n[Len(n)]) = ".git" THEN SubSeq(n, 1, Len(n) - 1) ELSE n

\* the slug the accepted shape http(s)://[www.]github.com/<owner>/<name>[.git][/...]
\* gives a URL text: its first two path segments, the second without a
\* trailing ".git"; None for a text of another shape
ShapeSlug(url) ==
    LET s == Strip(url)
        h == IF Len(s) >= 2 /\ Lower(s[2]) = "www." THEN 3 ELSE 2
        p == PathPart(SubSeq(s, h + 1, Len(s)))
        e1 == NextSlash(p, 2)
        e2 == NextSlash(p, e1 + 1)
        owner == SubSeq(p, 2, e1 - 1)
        name == SubSeq(p, e1 + 1, e2 - 1)
    IN  IF /\ Len(s) >= h
           /\ Lower(s[1]) \in {"http://", "https://"}
           /\ Lower(s[h]) = "github.com"
           /\ p # <<>> /\ p[1] = "/"
           /\ owner # <<>>
           /\ name # <<>>
        THEN Some(owner \o <<"/">> \o StripGit(name))
        ELSE None

\* C18: https://github.com/foo/bar normalises to foo/bar, and so do the same
\* URL with ".git" or with "/" at its end; https://example.com/foo/bar fails;
\* in general the slug is the first two path segments of the URL, the name
\* without a trailing ".git", and a URL of another shape fails.
C18_SlugOfFirstTwoSegments ==
    \A i \in Tasks :
        inv[i].pc # "start" =>
            LET u == inv[i].repo_url
                foobar == Some(<<"foo", "/", "bar">>)
            IN  /\ u = <<"https://", "github.com", "/", "foo", "/", "bar">>
                     => Normalised(i) = foobar
                /\ u = <<"https://", "github.com", "/", "foo", "/", "bar", ".git">>
                     => Normalised(i) = foobar
                /\ u = <<"https://", "github.com", "/", "foo", "/", "bar", "/">>
                     => Normalised(i) = foobar
                /\ u = <<"https://", "example.com", "/", "foo", "/", "bar">>
                     => Normalised(i) = None
                /\ Normalised(i) = ShapeSlug(u)

\* the four examples alone
C18_Examples ==
    \A i \in Tasks :
        inv[i].pc # "start" =>
            LET u == inv[i].repo_url
                foobar == Some(<<"foo", "/", "bar">>)
            IN  /\ u \in {<<"https://", "github.com", "/", "foo", "/", "bar">>,
                          <<"https://", "github.com", "/", "foo", "/", "bar", ".git">>,
                          <<"https://", "github.com", "/", "foo", "/", "bar", "/">>}
                     => Normalised(i) = foobar
                /\ u = <<"https://", "example.com", "/", "foo", "/", "bar">>
                     => Normalised(i) = None

\* the texts on which the slug is not the one of the first two path segments
\* all have a query in their second segment or ".git" as their whole name
C18_DivergesOnlyOn ==
    \A i \in Tasks :
        (inv[i].pc # "start" /\ Normalised(i) # ShapeSlug(inv[i].repo_url)) =>
            LET s == Strip(inv[i].repo_url)
            IN  \/ \E k \in 1..Len(s) : IsQuery(s[k])
                \/ \E k \in 2..Len(s) : s[k - 1] = "/" /\ s[k] = ".git"

\* the commands of the try block of analyze_repo_local before the line count,
\* in the order it runs them, and the key of each in the repository
TrySteps == <<"safe", "branch", "commits", "dates", "contributors", "numstat">>
TryCmds == <<"safe.directory", "rev-parse", "rev-list", "log", "shortlog", "numstat">>

\* the step of invocation i whose command raises first: 1..6 for a command of
\* TrySteps, 7 for the line count, 0 when no step raises
FaultAt(i) ==
    LET w == Repo(inv[i])
    IN  IF \E k \in 1..6 : w[TrySteps[k]].kind = "raise"
        THEN CHOOSE k \in 1..6 :
                /\ w[TrySteps[k]].kind = "raise"
                /\ \A j \in 1..(k - 1) : w[TrySteps[j]].kind # "raise"
        ELSE IF ~LineCount(w).hang /\ ~IsNone(LineCount(w).fault) THEN 7 ELSE 0

\* the text of that fault
FaultText(i) ==
    IF FaultAt(i) = 7 THEN Val(LineCount(Repo(inv[i])).fault)
    ELSE Repo(inv[i])[TrySteps[FaultAt(i)]].err

\* C19: in local mode no fault raised after the working copy was found leaves
\* the invocation.  The invocation returns a full record with status
\* 'ERROR: <fault text>', the identifier and the slug; the fields of the steps
\* before the faulting one are as those steps left them, the fields of the
\* faulting step and of the later ones are absent, no later command is run,
\* and the invocation ends with a result, not an exception, so the record of
\* the batch is this one and not the one of the dispatch loop.
C19_FaultContained ==
    \A i \in Tasks :
        (Local(i) /\ Located(i)) =>
            /\ inv[i].pc # "raised"
            /\ inv[i].exc = None
            /\ (FaultAt(i) > 0 /\ Ended(inv[i])) =>
                 LET rec == Val(inv[i].result)
                     k == FaultAt(i)
                     Before(q) == \E j \in 1..(k - 1) : TrySteps[j] = q
                 IN  /\ inv[i].pc = "returned"
                     /\ FullRecord(rec)
                     /\ rec.repo_url = inv[i].repo_url
                     /\ rec.repo_slug = Val(parse_slug(inv[i].repo_url))
                     /\ rec.clone_status = ERROR(FaultText(i))
                     /\ SelectSeq(inv[i].cmds,
                                  LAMBDA c : \E j \in 1..6 : TryCmds[j] = c)
                          = SubSeq(TryCmds, 1, Min(k, 6))
                     /\ k < 7 => inv[i].cmds = SubSeq(TryCmds, 1, k)
                     /\ rec.total_lines = None
                     /\ rec.size_on_disk_mb = None
                     /\ ~Before("branch") => rec.default_branch = None
                     /\ ~Before("commits") => rec.commits_count = None
                     /\ ~Before("dates") =>
                          rec.first_commit_iso = None /\ rec.last_commit_iso = None
                     /\ ~Before("contributors") => rec.contributors_count = None
                     /\ ~Before("numstat") => rec.avg_lines_changed_per_commit = None
                     /\ \A n \in 0..(MaxCommits + 1) :
                          /\ (Before("branch") /\ Answers(i, "branch", n))
                               => rec.default_branch = Some(<<"main">>)
                          /\ (Before("commits") /\ Answers(i, "commits", n))
                               => rec.commits_count = Some(n)
                          /\ (Before("dates") /\ Answers(i, "dates", n)) =>
                               /\ rec.first_commit_iso = Some(<<"2025-10-04T09:00:00+00:00">>)
                               /\ rec.last_commit_iso = Some(<<"2025-10-05T17:30:00+00:00">>)
                          /\ (Before("contributors") /\ Answers(i, "contributors", n))
                               => rec.contributors_count = Some(2)
                          /\ (Before("numstat") /\ Answers(i, "numstat", n)
                                /\ Answers(i, "commits", n) /\ n > 0)
                               => rec.avg_lines_changed_per_commit = Some(AvgOf8[n])

\* the contributor query raised after the branch, the count and the dates were
\* obtained: the record has those, the fault text as its status, and the
\* change statistics were never asked for
C19_Witness ==
    \E i \in Tasks :
        /\ Local(i) /\ Located(i)
        /\ FaultAt(i) = 5
        /\ inv[i].pc = "returned"
        /\ inv[i].cmds = SubSeq(TryCmds, 1, 5)
        /\ inv[i].metrics.default_branch = Some(<<"main">>)
        /\ inv[i].metrics.commits_count = Some(MaxCommits)
        /\ inv[i].metrics.first_commit_iso # None
        /\ inv[i].metrics.contributors_count = None
        /\ inv[i].metrics.clone_status
             = ERROR(<<"[Errno 2] No such file or directory: 'git'">>)

\* a status a record may end with: OK, or a text that begins with "ERROR: "
FinalStatus(st) == st = OK \/ (Len(st) >= 1 /\ st[1] = "ERROR: ")

\* the commands of the line-count step
LineCountCmds == {"cloc", "ls-files", "wc"}

\* invocation i found its working copy and attempted the five queries, then
\* the line count, then the size
AllAttempted(i) ==
    /\ Located(i)
    /\ SelectSeq(inv[i].cmds, LAMBDA c : \E k \in 1..Len(QueryCmds) : QueryCmds[k] = c)
         = QueryCmds
    /\ \E k \in 1..Len(inv[i].cmds) :
         /\ inv[i].cmds[k] \in LineCountCmds
         /\ \E j \in 1..(k - 1) : inv[i].cmds[j] = "numstat"
    /\ inv[i].metrics.size_on_disk_mb # None

\* C20: every record of a returned batch, in the rows and in the table, has
\* status OK or a status beginning with "ERROR:", never PENDING; and a record
\* has status OK only when its invocation found the working copy and attempted
\* the five queries, the line count and the size.
C20_FinalStatus ==
    /\ orch = "done" =>
         /\ Len(rows) = Len(urls)
         /\ \A k \in 1..Len(rows) :
              /\ FinalStatus(rows[k].clone_status)
              /\ rows[k].clone_status # PENDING
              /\ Val(df).records[k].clone_status = rows[k].clone_status
    /\ \A i \in Tasks :
         /\ inv[i].metrics.clone_status = OK => (AllAttempted(i) /\ inv[i].pc = "returned")
         /\ inv[i].pc = "returned" => FinalStatus(inv[i].metrics.clone_status)
    /\ \A k \in 1..Len(rows) :
         rows[k].clone_status = OK => AllAttempted(yielded[k])

\* a returned batch with a record OK, of a copy whose queries all ran, and a
\* record of a copy that was not found
C20_Witness ==
    /\ orch = "done"
    /\ \E k \in 1..Len(rows) :
         rows[k].clone_status = OK /\ AllAttempted(yielded[k])
    /\ \E k \in 1..Len(rows) :
         rows[k].clone_status = ERROR(<<"not found locally">>)

====
